---- MODULE Spec2Model ----
(***************************************************************************)
(* Retail Insights Dashboard (src/streamlit_app.py).                       *)
(*                                                                         *)
(* The script is a Streamlit page: every widget interaction re-runs the    *)
(* whole script top to bottom.  A state of this module is the state at the *)
(* end of one script run: the cached tables, the widget values and every   *)
(* script-level name the run assigned.                                     *)
(*                                                                         *)
(* Modelling conventions                                                   *)
(*   - a DataFrame is a sequence of records (one record per row, one field *)
(*     per column); a grouped result is a sequence of [key, value] rows;   *)
(*   - store, customer, invoice, category and payment identifiers are      *)
(*     small integers, ordered as the script's strings are ordered; Null   *)
(*     stands for a missing cell (pandas NaN);                             *)
(*   - revenue is an exact number of currency units (an integer); rates    *)
(*     are whole percents, and a value written x100 is 100 times the       *)
(*     script's value, so that products with a rate stay integers;         *)
(*   - a sort_values call with pandas' default kind ("quicksort", not      *)
(*     stable) yields any order that is sorted by the value: the order of  *)
(*     equal values is a nondeterministic choice.                          *)
(***************************************************************************)
EXTENDS Integers, Sequences, FiniteSets, TLC

----------------------------------------------------------------------------
(* State *)

VARIABLES
  files,             \* the two data files on disk
  cache,             \* st.cache_data's entry for load_data()
  df, rfm,           \* the tables the current run got from load_data()
  malls,             \* the options of the store selectbox
  selected_mall,     \* the store selectbox
  discount, top_pct, \* the two sliders
  filtered,          \* the filtered view
  total_revenue, total_orders, unique_customers,   \* the three KPIs
  store_perf, monthly, pm, seg_counts, top_cust, cat,
  repeat, one_time,
  total_spend, threshold, targets,
  revenue_before, revenue_after, estimated_loss,   \* the last two times 100
  error              \* the exception that ended the run, or "none"

vars ==
  << files, cache, df, rfm, malls, selected_mall, discount, top_pct, filtered,
     total_revenue, total_orders, unique_customers, store_perf, monthly, pm,
     seg_counts, top_cust, cat, repeat, one_time, total_spend, threshold,
     targets, revenue_before, revenue_after, estimated_loss, error >>

----------------------------------------------------------------------------
(* Bounds of the model *)

\* longest sales file drawn from RowPool
MaxRows == 2
\* number of customers (one row each) of the wide sales files
NWide == 11

----------------------------------------------------------------------------
(* Values *)

\* a missing cell (NaN / NaT)
Null == 0
\* the "All" entry of the store selectbox
All == -1
\* .head(10) of the two rankings
TopN == 10
\* the discount slider: 0.0 .. 0.5, initially 0.10 (whole percents)
DiscountMin == 0
DiscountMax == 50
DiscountDefault == 10
\* the target slider: 1 .. 50, initially 10
TopPctMin == 1
TopPctMax == 50
TopPctDefault == 10

Min2(a, b) == IF a <= b THEN a ELSE b

----------------------------------------------------------------------------
(* Input files *)

\* one line of Data/processed_sales_data.csv
Row(inv, cust, mall, ctg, qty, price, rev, pay, date) ==
  [invoice_no |-> inv, customer_id |-> cust, shopping_mall |-> mall,
   category |-> ctg, quantity |-> qty, price |-> price, revenue |-> rev,
   payment_method |-> pay, invoice_date |-> date]

\* The lines the small sales files are made of: two stores and a line with no
\* store, three customers, a return (negative quantity), a revenue column that
\* differs from quantity * price, and three months over a year end.
RowPool ==
  { Row(1, 2, 1,    2,  2, 3,  6, 1, 20211215),
    Row(2, 1, 2,    1,  1, 6,  6, 2, 20220103),
    Row(3, 2, 2,    1,  1, 4,  3, 1, 20220120),
    Row(4, 3, Null, 2,  1, 2,  2, 2, 20220210),
    Row(1, 2, 1,    1, -1, 3, -3, 1, 20211215),
    Row(5, 3, 1,    1,  3, 3,  9, 2, 20211231) }

RECURSIVE SeqsUpTo(_, _)
SeqsUpTo(S, n) ==
  IF n = 0 THEN {<<>>}
  ELSE LET shorter == SeqsUpTo(S, n - 1)
       IN  shorter \cup {Append(s, x) : s \in {t \in shorter : Len(t) = n - 1}, x \in S}

\* A sales file with one line per customer, customers NWide down to 1, customer
\* c spending c on invoice c; then, if tie > 0, a second invoice of customer
\* `tie` worth 1, which makes that customer spend as much as customer tie + 1.
WideRows(tie) ==
  LET base == [i \in 1..NWide |->
                 LET c == NWide + 1 - i
                 IN  Row(c, c, 1, 1 + (c % 2), c, 1, c, 1 + (c % 2), 20220100 + c)]
  IN  IF tie = 0 THEN base
      ELSE Append(base, Row(NWide + tie, tie, 1, 1, 1, 1, 1, 1, 20220100 + tie))

\* The sales files: with or without a revenue column.  A file with no data
\* line is left out.
SalesFiles ==
  {[hasRevenue |-> h, rows |-> s] :
      h \in BOOLEAN, s \in SeqsUpTo(RowPool, MaxRows) \ {<<>>}}
  \cup {[hasRevenue |-> TRUE, rows |-> WideRows(t)] : t \in 0..(NWide - 1)}

\* Data/rfm_customer_segments.csv: with or without a Segment column
SegmentFiles ==
  { [hasSegment |-> TRUE,
     rows |-> << [customer_id |-> 1, Segment |-> 2],
                 [customer_id |-> 2, Segment |-> 1],
                 [customer_id |-> 3, Segment |-> 2] >>],
    [hasSegment |-> FALSE,
     rows |-> << [customer_id |-> 1, Segment |-> Null] >>] }

----------------------------------------------------------------------------
(* pandas helpers, as the script uses them *)

\* df[col]
Column(view, col) == [i \in DOMAIN view |-> view[i][col]]

\* Series.sum(): 0 for an empty series
RECURSIVE SeriesSum(_)
SeriesSum(s) == IF Len(s) = 0 THEN 0 ELSE Head(s) + SeriesSum(Tail(s))

\* Series.nunique(): the number of distinct values, missing cells not counted
NUnique(s) == Cardinality({s[i] : i \in DOMAIN s} \ {Null})

\* the keys of a groupby: distinct, missing keys dropped (dropna=True), sorted
\* ascending (sort=True)
RECURSIVE SortedKeys(_)
SortedKeys(S) ==
  IF S = {} THEN <<>>
  ELSE LET m == CHOOSE x \in S : \A y \in S : x <= y
       IN  <<m>> \o SortedKeys(S \ {m})

GroupKeys(keys) == SortedKeys({keys[i] : i \in DOMAIN keys} \ {Null})

\* the cells of `values` on the rows whose key is k, in row order
GroupOf(keys, values, k) ==
  LET idx == SelectSeq([i \in DOMAIN keys |-> i], LAMBDA i : keys[i] = k)
  IN  [j \in DOMAIN idx |-> values[idx[j]]]

\* view.groupby(keys)[col].sum()
GroupBySum(keys, values) ==
  LET ks == GroupKeys(keys)
  IN  [j \in DOMAIN ks |-> [key |-> ks[j], value |-> SeriesSum(GroupOf(keys, values, ks[j]))]]

\* view.groupby(keys)[col].nunique()
GroupByNUnique(keys, values) ==
  LET ks == GroupKeys(keys)
  IN  [j \in DOMAIN ks |-> [key |-> ks[j], value |-> NUnique(GroupOf(keys, values, ks[j]))]]

\* Series.value_counts() before its sort: one row per distinct value, missing
\* cells dropped
ValueCounts(values) ==
  LET ks == GroupKeys(values)
  IN  [j \in DOMAIN ks |-> [key |-> ks[j], value |-> Len(GroupOf(values, values, ks[j]))]]

\* sort_values(<value column>, ascending=False) with the default sort kind:
\* every order of the rows that is descending by value
RECURSIVE DescOrders(_, _)
DescOrders(rows, I) ==
  IF I = {} THEN {<<>>}
  ELSE LET top == {i \in I : \A j \in I : rows[j].value <= rows[i].value}
       IN  UNION {{<<rows[i]>> \o t : t \in DescOrders(rows, I \ {i})} : i \in top}

\* SortValuesDesc with the sort left out: the groupby order
SortValuesSkipped(rows) == {rows}

SortValuesDesc(rows) == DescOrders(rows, DOMAIN rows)

\* .head(n)
HeadRows(s, n) == SubSeq(s, 1, Min2(n, Len(s)))

\* np.sort of a series (ascending, duplicates kept), by insertion
RECURSIVE InsertAsc(_, _)
InsertAsc(x, s) ==
  IF Len(s) = 0 THEN <<x>>
  ELSE IF x <= Head(s) THEN <<x>> \o s
  ELSE <<Head(s)>> \o InsertAsc(x, Tail(s))

RECURSIVE SortAsc(_)
SortAsc(s) == IF Len(s) = 0 THEN <<>> ELSE InsertAsc(Head(s), SortAsc(Tail(s)))

\* Quantile rejecting q = 1 as well
QuantileBelowOne(vals, q100) ==
  IF q100 < 0 \/ q100 >= 100 THEN [error |-> "ValueError", nan |-> TRUE, x100 |-> 0]
  ELSE IF Len(vals) = 0 THEN [error |-> "none", nan |-> TRUE, x100 |-> 0]
  ELSE LET s == SortAsc(vals)
           n == Len(s)
           h100 == (n - 1) * q100
           lo == h100 \div 100
           frac100 == h100 % 100
           hi == Min2(lo + 1, n - 1)
       IN  [error |-> "none", nan |-> FALSE,
            x100 |-> 100 * s[lo + 1] + frac100 * (s[hi + 1] - s[lo + 1])]

\* Series.quantile(q), q = q100 / 100, interpolation "linear".  A q outside
\* [0, 1] raises ValueError; an empty series gives NaN; otherwise the value at
\* the fractional position q * (n - 1) of the sorted series, times 100.
Quantile(vals, q100) ==
  IF q100 < 0 \/ q100 > 100 THEN [error |-> "ValueError", nan |-> TRUE, x100 |-> 0]
  ELSE IF Len(vals) = 0 THEN [error |-> "none", nan |-> TRUE, x100 |-> 0]
  ELSE LET s == SortAsc(vals)
           n == Len(s)
           h100 == (n - 1) * q100
           lo == h100 \div 100
           frac100 == h100 % 100
           hi == Min2(lo + 1, n - 1)
       IN  [error |-> "none", nan |-> FALSE,
            x100 |-> 100 * s[lo + 1] + frac100 * (s[hi + 1] - s[lo + 1])]

----------------------------------------------------------------------------
(* The script's computations *)

\* parse_dates=["invoice_date"]: the text yyyymmdd as a timestamp
ParseDate(text) ==
  [year |-> text \div 10000, month |-> (text \div 100) % 100, day |-> text % 100]

\* load_data(): both files read, dates parsed, and the revenue column derived
\* as quantity * price when the file has none
load_data(sales, segments) ==
  [df |-> [i \in DOMAIN sales.rows |->
             LET r == sales.rows[i]
             IN  [r EXCEPT !.invoice_date = ParseDate(@),
                           !.revenue = IF sales.hasRevenue THEN @
                                       ELSE r.quantity * r.price]],
   rfm |-> segments]

\* malls = ["All"] + sorted(df["shopping_mall"].dropna().unique().tolist())
MallOptions(table) == <<All>> \o GroupKeys(Column(table, "shopping_mall"))

\* FilterByMall falling back to the whole table when no row matches
FilterOrAll(table, sel) ==
  IF sel # All /\ \E i \in DOMAIN table : table[i].shopping_mall = sel
  THEN SelectSeq(table, LAMBDA r : r.shopping_mall = sel)
  ELSE table

\* FilterByMall narrowing the previous run's view instead of the table
FilterPreviousView(table, sel) ==
  IF sel # All
  THEN SelectSeq(filtered, LAMBDA r : r.shopping_mall = sel)
  ELSE table

\* filtered = df[df["shopping_mall"] == selected_mall].copy(), or df.copy()
FilterByMall(table, sel) ==
  IF sel # All
  THEN SelectSeq(table, LAMBDA r : r.shopping_mall = sel)
  ELSE table

\* the three KPIs
TotalRevenue(view) == SeriesSum(Column(view, "revenue"))
TotalOrders(view) == NUnique(Column(view, "invoice_no"))
UniqueCustomers(view) == NUnique(Column(view, "customer_id"))

\* store_perf before its sort
RevenueByStore(view) ==
  GroupBySum(Column(view, "shopping_mall"), Column(view, "revenue"))

\* ToPeriodM keeping the month of the year only (dt.month)
ToPeriodMonthOnly(date) == date.month - 1

\* invoice_date.dt.to_period("M"): the month's ordinal, months since 1970-01
ToPeriodM(date) == (date.year - 1970) * 12 + (date.month - 1)

Digit(d) == <<"0", "1", "2", "3", "4", "5", "6", "7", "8", "9">>[d + 1]

\* Period.astype(str): "YYYY-MM", one character per element
PeriodStr(ord) ==
  LET y == 1970 + (ord \div 12)
      m == (ord % 12) + 1
  IN  << Digit(y \div 1000), Digit((y \div 100) % 10), Digit((y \div 10) % 10),
         Digit(y % 10), "-", Digit(m \div 10), Digit(m % 10) >>

\* monthly: grouped by month (groupby sorts the periods), the key then
\* rendered as text
MonthlyTrend(view) ==
  LET g == GroupBySum([i \in DOMAIN view |-> ToPeriodM(view[i].invoice_date)],
                      Column(view, "revenue"))
  IN  [j \in DOMAIN g |-> [key |-> PeriodStr(g[j].key), value |-> g[j].value]]

\* total_spend, and top_cust before sort and head
RevenueByCustomer(view) ==
  GroupBySum(Column(view, "customer_id"), Column(view, "revenue"))

\* cat before sort and head
RevenueByCategory(view) ==
  GroupBySum(Column(view, "category"), Column(view, "revenue"))

\* freq
Freq(view) == GroupByNUnique(Column(view, "customer_id"), Column(view, "invoice_no"))

\* RepeatCount with the comparison >= 1
RepeatCountAtLeastOne(fr) == Len(SelectSeq(fr, LAMBDA g : g.value >= 1))

\* repeat = int((freq["invoice_no"] > 1).sum())
RepeatCount(fr) == Len(SelectSeq(fr, LAMBDA g : g.value > 1))

\* one_time = int((freq["invoice_no"] == 1).sum())
OneTimeCount(fr) == Len(SelectSeq(fr, LAMBDA g : g.value = 1))

\* threshold = total_spend.quantile(1 - top_pct/100)
Threshold(spend, pct) == Quantile(Column(spend, "value"), 100 - pct)

\* Targets with the comparison >
TargetsStrict(spend, th) ==
  IF th.nan THEN {}
  ELSE {spend[j].key : j \in {k \in DOMAIN spend : 100 * spend[k].value > th.x100}}

\* targets = total_spend[total_spend >= threshold].index; a comparison with
\* NaN is false
Targets(spend, th) ==
  IF th.nan THEN {}
  ELSE {spend[j].key : j \in {k \in DOMAIN spend : 100 * spend[k].value >= th.x100}}

\* revenue_before = filtered[filtered["customer_id"].isin(targets)]["revenue"].sum()
RevenueBefore(view, tg) ==
  SeriesSum(Column(SelectSeq(view, LAMBDA r : r.customer_id \in tg), "revenue"))

\* RevenueAfter100 with the sign of the discount wrong
RevenueAfterSurcharge100(before, disc) == before * (100 + disc)

\* revenue_after = revenue_before * (1 - discount), times 100
RevenueAfter100(before, disc) == before * (100 - disc)

\* "estimated_loss": revenue_before - revenue_after, times 100
EstimatedLoss100(before, after100) == 100 * before - after100

----------------------------------------------------------------------------
(* The script as a state machine *)

\* a threshold that was never computed
NoThreshold == [error |-> "none", nan |-> TRUE, x100 |-> 0]

\* Before the page is opened: nothing cached, nothing computed, the widgets at
\* their initial values.
Init ==
  /\ files \in [sales : SalesFiles, segments : SegmentFiles]
  /\ cache = [loaded |-> FALSE, value |-> [df |-> <<>>, rfm |-> [hasSegment |-> FALSE, rows |-> <<>>]]]
  /\ df = <<>>
  /\ rfm = [hasSegment |-> FALSE, rows |-> <<>>]
  /\ malls = <<All>>
  /\ selected_mall = All
  /\ discount = DiscountDefault
  /\ top_pct = TopPctDefault
  /\ filtered = <<>>
  /\ total_revenue = 0 /\ total_orders = 0 /\ unique_customers = 0
  /\ store_perf = <<>> /\ monthly = <<>> /\ pm = <<>> /\ seg_counts = <<>>
  /\ top_cust = <<>> /\ cat = <<>>
  /\ repeat = 0 /\ one_time = 0
  /\ total_spend = <<>> /\ threshold = NoThreshold /\ targets = {}
  /\ revenue_before = 0 /\ revenue_after = 0 /\ estimated_loss = 0
  /\ error = "none"

\* One run of the script, top to bottom, with the widgets at sel, disc and pct.
\* load_data() is served from the cache once it has run.  A ValueError of
\* quantile() ends the run there: the names after it stay unassigned.
ScriptRun(sel, disc, pct) ==
  LET data == IF cache.loaded THEN cache.value
              ELSE load_data(files.sales, files.segments)
      view == FilterByMall(data.df, sel)
      fr == Freq(view)
      spend == RevenueByCustomer(view)
      th == Threshold(spend, pct)
      ok == th.error = "none"
      tg == Targets(spend, th)
      before == RevenueBefore(view, tg)
      after100 == RevenueAfter100(before, disc)
  IN  /\ cache' = [loaded |-> TRUE, value |-> data]
      /\ df' = data.df
      /\ rfm' = data.rfm
      /\ malls' = MallOptions(data.df)
      /\ selected_mall' = sel
      /\ filtered' = view
      /\ total_revenue' = TotalRevenue(view)
      /\ total_orders' = TotalOrders(view)
      /\ unique_customers' = UniqueCustomers(view)
      /\ monthly' = MonthlyTrend(view)
      /\ repeat' = RepeatCount(fr)
      /\ one_time' = OneTimeCount(fr)
      /\ discount' = disc
      /\ top_pct' = pct
      /\ total_spend' = spend
      /\ threshold' = th
      /\ targets' = IF ok THEN tg ELSE {}
      /\ revenue_before' = IF ok THEN before ELSE 0
      /\ revenue_after' = IF ok THEN after100 ELSE 0
      /\ estimated_loss' = IF ok THEN EstimatedLoss100(before, after100) ELSE 0
      /\ error' = th.error
      \* the sorts come last here: their outcome is a choice
      /\ store_perf' \in SortValuesDesc(RevenueByStore(view))
      /\ pm' \in SortValuesDesc(ValueCounts(Column(view, "payment_method")))
      /\ seg_counts' \in IF data.rfm.hasSegment
                         THEN SortValuesDesc(ValueCounts(Column(data.rfm.rows, "Segment")))
                         ELSE {<<>>}
      /\ top_cust' \in {HeadRows(s, TopN) : s \in SortValuesDesc(RevenueByCustomer(view))}
      /\ cat' \in {HeadRows(s, TopN) : s \in SortValuesDesc(RevenueByCategory(view))}
      /\ UNCHANGED files

\* the slider positions the model moves the sliders to
DiscountChoices == {DiscountMin, DiscountDefault, DiscountMax}
TopPctChoices == {TopPctDefault, TopPctMax}

\* the page is opened: the first run, which loads the files
FirstRun ==
  /\ ~cache.loaded
  /\ ScriptRun(selected_mall, discount, top_pct)

\* the user picks another entry of the store selectbox
SelectMall ==
  /\ cache.loaded
  /\ \E k \in DOMAIN malls :
       /\ malls[k] # selected_mall
       /\ ScriptRun(malls[k], discount, top_pct)

\* the user moves the discount slider
SetDiscount ==
  /\ cache.loaded
  /\ \E d \in DiscountChoices \ {discount} : ScriptRun(selected_mall, d, top_pct)

\* the user moves the target slider
SetTopPct ==
  /\ cache.loaded
  /\ \E p \in TopPctChoices \ {top_pct} : ScriptRun(selected_mall, discount, p)

Next == FirstRun \/ SelectMall \/ SetDiscount \/ SetTopPct

\* the dashboard: the script run by Streamlit, driven by its three widgets
Spec == Init /\ [][Next]_vars

----------------------------------------------------------------------------
(* The computation as a function of its parameters.  The widgets confine the *)
(* store to the stores of the file and the two rates to the slider ranges;   *)
(* the statements of lines 33-127 themselves accept any value.  Here the     *)
(* same run is made with parameters the widgets cannot deliver.              *)

\* store identifiers, one of them (the last) in no file
StoreIds == 1..3
\* discount rates, in percent: below 0, inside [0, 100], above 100
AnyDiscount == {-10, DiscountDefault, 110}
\* target percentages: 0, inside (0, 100], above 100
AnyTopPct == {0, TopPctDefault, 101}

\* the run with another store
CallWithStore ==
  /\ cache.loaded
  /\ \E m \in (StoreIds \cup {All}) \ {selected_mall} : ScriptRun(m, discount, top_pct)

\* the run with another discount rate
CallWithDiscount ==
  /\ cache.loaded
  /\ \E d \in AnyDiscount \ {discount} : ScriptRun(selected_mall, d, top_pct)

\* the run with another target percentage
CallWithTopPct ==
  /\ cache.loaded
  /\ \E p \in AnyTopPct \ {top_pct} : ScriptRun(selected_mall, discount, p)

NextCall == FirstRun \/ CallWithStore \/ CallWithDiscount \/ CallWithTopPct

SpecCall == Init /\ [][NextCall]_vars


----------------------------------------------------------------------------
(* Properties *)

\* the script has run at least once
Ran == cache.loaded

\* the sum of the value column of a grouped result
RECURSIVE SumValues(_)
SumValues(rows) == IF Len(rows) = 0 THEN 0 ELSE Head(rows).value + SumValues(Tail(rows))

\* the sum of the revenue of the rows of `view` at the positions I
RECURSIVE RevenueAt(_, _)
RevenueAt(view, I) ==
  IF I = {} THEN 0
  ELSE LET i == CHOOSE k \in I : TRUE
       IN  view[i].revenue + RevenueAt(view, I \ {i})

\* the positions of the rows of `view` whose column col holds k
RowsWith(view, col, k) == {i \in DOMAIN view : view[i][col] = k}

\* the values a column of `view` holds
ValuesOf(view, col) == {view[i][col] : i \in DOMAIN view}

\* the position of the first row of `view` whose column col holds k
FirstSeen(view, col, k) ==
  CHOOSE i \in RowsWith(view, col, k) : \A j \in RowsWith(view, col, k) : i <= j

\* C1: the total revenue of the view equals the sum of the revenue-by-store
\* entries computed on the same view.
C1_StoresPartitionTotal ==
  Ran => total_revenue = SumValues(store_perf)

\* C2: the unique-customers KPI equals repeat + one-time, a customer being
\* repeat with more than one distinct invoice in the view and one-time with
\* exactly one, and every customer of the view is in one of the two classes.
C2_CustomersClassified ==
  Ran =>
    LET custs == ValuesOf(filtered, "customer_id")
        orders(c) == Cardinality({filtered[i].invoice_no : i \in RowsWith(filtered, "customer_id", c)})
    IN  /\ unique_customers = Cardinality(custs)
        /\ repeat = Cardinality({c \in custs : orders(c) > 1})
        /\ one_time = Cardinality({c \in custs : orders(c) = 1})
        /\ unique_customers = repeat + one_time
        /\ \A c \in custs : orders(c) >= 1

\* a view with a repeat customer and a one-time customer
C2_Witness ==
  Ran /\ repeat >= 1 /\ one_time >= 1

\* a ranking: at most TopN rows, descending by value, each row a group of the
\* view with its summed revenue, no group twice, and no group left out whose
\* sum is strictly larger than one that is in
IsRanking(rank, view, col) ==
  LET groups == ValuesOf(view, col) \ {Null}
      sum(k) == RevenueAt(view, RowsWith(view, col, k))
      inside == {rank[i].key : i \in DOMAIN rank}
  IN  /\ Len(rank) <= TopN
      /\ \A i \in DOMAIN rank : \A j \in DOMAIN rank :
            /\ i < j => rank[i].value >= rank[j].value
            /\ i # j => rank[i].key # rank[j].key
      /\ \A i \in DOMAIN rank :
            rank[i].key \in groups /\ rank[i].value = sum(rank[i].key)
      /\ \A k \in groups \ inside : \A i \in DOMAIN rank : sum(k) <= rank[i].value

\* C3: the top-customers result has at most 10 entries, in descending order of
\* summed revenue, each a (customer, summed revenue) pair of the view's
\* per-customer aggregation, and no customer left out has a strictly larger
\* sum than one included.
C3_TopCustomers ==
  Ran => IsRanking(top_cust, filtered, "customer_id")

\* a view with more than TopN customers: the ranking is cut
C3_Witness ==
  /\ Ran
  /\ Cardinality(ValuesOf(filtered, "customer_id")) > TopN
  /\ Len(top_cust) = TopN

\* the store of the run is a store of no row of the table
UnmatchedStore ==
  /\ selected_mall # All
  /\ \A i \in DOMAIN df : df[i].shopping_mall # selected_mall

\* C4: a run whose store matches no row does not fail; its view is empty, the
\* three KPIs are 0, every grouped result is empty, repeat and one-time are 0
\* and the three simulation outputs are 0.  (The percentage is one quantile()
\* accepts.)
C4_UnmatchedStoreIsEmpty ==
  (Ran /\ UnmatchedStore /\ top_pct \in 0..100) =>
    /\ error = "none"
    /\ filtered = <<>>
    /\ total_revenue = 0 /\ total_orders = 0 /\ unique_customers = 0
    /\ store_perf = <<>> /\ monthly = <<>> /\ pm = <<>>
    /\ top_cust = <<>> /\ cat = <<>>
    /\ repeat = 0 /\ one_time = 0
    /\ revenue_before = 0 /\ revenue_after = 0 /\ estimated_loss = 0

\* a run on a table with rows, for a store none of them has
C4_Witness ==
  Ran /\ UnmatchedStore /\ top_pct \in 0..100 /\ Len(df) > 0 /\ filtered = <<>>

\* C5 as stated: revenue_after <= revenue_before whenever the discount rate is
\* above 0, estimated_loss = revenue_before - revenue_after, and a rate of 0
\* gives a loss of 0.
C5_DiscountNeverRaisesRevenue ==
  Ran =>
    /\ discount > 0 => revenue_after <= 100 * revenue_before
    /\ estimated_loss = 100 * revenue_before - revenue_after
    /\ discount = 0 => (estimated_loss = 0 /\ revenue_after = 100 * revenue_before)

\* C5 amended: the same, the first part for a revenue_before that is not
\* negative; a negative revenue_before rises under a discount.
C5_DiscountOnNonNegativeRevenue ==
  Ran =>
    /\ (discount > 0 /\ revenue_before >= 0) => revenue_after <= 100 * revenue_before
    /\ (discount > 0 /\ revenue_before < 0) => revenue_after > 100 * revenue_before
    /\ estimated_loss = 100 * revenue_before - revenue_after
    /\ discount = 0 => (estimated_loss = 0 /\ revenue_after = 100 * revenue_before)

\* a discounted positive revenue
C5_Witness ==
  /\ Ran /\ discount > 0 /\ revenue_before > 0
  /\ revenue_after < 100 * revenue_before
  /\ estimated_loss > 0

\* the computation rejected nothing: its only failure is quantile()'s
\* ValueError, for a percentage outside 0..100
ErrorOfRun == IF top_pct \in 0..100 THEN "none" ELSE "ValueError"

\* the tables are the files as load_data() read them
TablesAsLoaded ==
  /\ cache.value = load_data(files.sales, files.segments)
  /\ df = cache.value.df
  /\ rfm = cache.value.rfm

TiesInFirstSeenOrder(rank, view, col) ==
  LET groups == ValuesOf(view, col) \ {Null}
      sum(k) == RevenueAt(view, RowsWith(view, col, k))
      inside == {rank[i].key : i \in DOMAIN rank}
  IN  /\ \A i \in DOMAIN rank : \A j \in DOMAIN rank :
            (i < j /\ rank[i].value = rank[j].value) =>
               FirstSeen(view, col, rank[i].key) < FirstSeen(view, col, rank[j].key)
      /\ \A k \in groups \ inside : \A i \in DOMAIN rank :
            sum(k) = rank[i].value =>
               FirstSeen(view, col, rank[i].key) < FirstSeen(view, col, k)

\* C7: in the top-customers and top-categories rankings, groups with equal
\* summed revenue keep their first-encountered order, which also decides which
\* of them survive the cut to 10.
C7_TiesKeepFirstSeenOrder ==
  Ran =>
    /\ TiesInFirstSeenOrder(top_cust, filtered, "customer_id")
    /\ TiesInFirstSeenOrder(cat, filtered, "category")

DigitValue(ch) ==
  CASE ch = "0" -> 0 [] ch = "1" -> 1 [] ch = "2" -> 2 [] ch = "3" -> 3
    [] ch = "4" -> 4 [] ch = "5" -> 5 [] ch = "6" -> 6 [] ch = "7" -> 7
    [] ch = "8" -> 8 [] ch = "9" -> 9

\* the year and the month a "YYYY-MM" key reads
YearOfKey(key) ==
  1000 * DigitValue(key[1]) + 100 * DigitValue(key[2]) + 10 * DigitValue(key[3]) + DigitValue(key[4])
MonthOfKey(key) == 10 * DigitValue(key[6]) + DigitValue(key[7])

\* C8: the monthly trend has exactly one entry per calendar month (year and
\* month) of the view, each entry's value is the summed revenue of the rows of
\* that month, and the entries are in ascending chronological order whatever
\* their values.
C8_MonthlyTrend ==
  Ran =>
    LET months == {<<filtered[i].invoice_date.year, filtered[i].invoice_date.month>> : i \in DOMAIN filtered}
        rowsOf(y, m) == {i \in DOMAIN filtered : /\ filtered[i].invoice_date.year = y
                                                 /\ filtered[i].invoice_date.month = m}
    IN  /\ Len(monthly) = Cardinality(months)
        /\ \A j \in DOMAIN monthly :
              LET key == monthly[j].key
              IN  /\ Len(key) = 7 /\ key[5] = "-"
                  /\ <<YearOfKey(key), MonthOfKey(key)>> \in months
                  /\ monthly[j].value = RevenueAt(filtered, rowsOf(YearOfKey(key), MonthOfKey(key)))
        /\ \A i \in DOMAIN monthly : \A j \in DOMAIN monthly :
              i < j =>
                \/ YearOfKey(monthly[i].key) < YearOfKey(monthly[j].key)
                \/ /\ YearOfKey(monthly[i].key) = YearOfKey(monthly[j].key)
                   /\ MonthOfKey(monthly[i].key) < MonthOfKey(monthly[j].key)

\* two months over a year end, the earlier one with the larger revenue
C8_Witness ==
  /\ Ran /\ Len(monthly) >= 2
  /\ YearOfKey(monthly[1].key) < YearOfKey(monthly[2].key)
  /\ MonthOfKey(monthly[1].key) > MonthOfKey(monthly[2].key)
  /\ monthly[1].value > monthly[2].value

\* C9: on a non-empty view the target set is exactly the customers whose
\* summed revenue is >= the (100 - top_pct)-th linear-interpolation percentile
\* of the per-customer sums, revenue_before is the summed revenue of the rows
\* of those customers, every customer with the largest sum is a target and the
\* target set is not empty.  The percentile is written here from the ranks of
\* the sums: the sum of rank k is the one with at most k sums below it and
\* more than k sums not above it.
C9_TargetsAtPercentile ==
  (Ran /\ Len(filtered) > 0) =>
    LET custs == ValuesOf(filtered, "customer_id")
        sum(c) == RevenueAt(filtered, RowsWith(filtered, "customer_id", c))
        n == Cardinality(custs)
        atRank(k) == CHOOSE x \in {sum(c) : c \in custs} :
                       /\ Cardinality({c \in custs : sum(c) < x}) <= k
                       /\ Cardinality({c \in custs : sum(c) <= x}) > k
        pos100 == (n - 1) * (100 - top_pct)
        lo == CHOOSE k \in 0..(n - 1) : 100 * k <= pos100 /\ pos100 < 100 * (k + 1)
        hi == IF lo + 1 <= n - 1 THEN lo + 1 ELSE lo
        pct100 == (100 * (lo + 1) - pos100) * atRank(lo) + (pos100 - 100 * lo) * atRank(hi)
    IN  /\ ~threshold.nan /\ threshold.x100 = pct100
        /\ targets = {c \in custs : 100 * sum(c) >= pct100}
        /\ revenue_before = RevenueAt(filtered, {i \in DOMAIN filtered : filtered[i].customer_id \in targets})
        /\ targets # {}
        /\ \A c \in custs : (\A c2 \in custs : sum(c2) <= sum(c)) => c \in targets

\* an interpolated threshold that leaves some customer out
C9_Witness ==
  /\ Ran /\ targets # {}
  /\ targets # ValuesOf(filtered, "customer_id")
  /\ threshold.x100 % 100 # 0

\* the rows of `table` a selection keeps: all of them for All, otherwise those
\* of the store, in the table's order
IsViewOf(view, table, sel) ==
  IF sel = All THEN view = table
  ELSE LET idx == {i \in DOMAIN table : table[i].shopping_mall = sel}
       IN  /\ Len(view) = Cardinality(idx)
           /\ \A i \in idx : view[Cardinality({j \in idx : j <= i})] = table[i]

\* C10: once loaded, no run changes the cached tables or the tables the script
\* works on, and every run's view is derived afresh from the loaded sales
\* table and the current selection alone.
C10_TablesNeverModified ==
  [][Ran => /\ cache' = cache
            /\ df' = df /\ rfm' = rfm
            /\ malls' = malls
            /\ IsViewOf(filtered', df, selected_mall')
            /\ total_revenue' = RevenueAt(filtered', DOMAIN filtered')]_vars

\* after a store was selected, the view of another store: not a part of the
\* previous view
C10_Witness ==
  /\ Ran /\ selected_mall # All
  /\ filtered # <<>> /\ Len(filtered) < Len(df)
  /\ \E i \in DOMAIN df : df[i].shopping_mall \notin {Null, selected_mall}

====
